---- MODULE Spec2Model ----
(***************************************************************************)
(* InstaNotes backend (src/backend/server.js): the extractive summarizer   *)
(* summarizeExtractive and the POST /api/summarize pipeline around it      *)
(* (requireAuth, userRateLimiter, the handler, saveSummaryToDB).           *)
(*                                                                         *)
(* The file holds two versions of the server: version 1 (lines 1-300, the  *)
(* protected server) and version 2 (lines 301-393, the CORS/fallback       *)
(* server).  Strings are sequences of one-character strings.               *)
(***************************************************************************)
EXTENDS Integers, Sequences, FiniteSets, TLC

(***************************************************************************)
(* Bounds of the model.                                                    *)
(***************************************************************************)
\* longest document of SpecPure, in characters
MaxLen == 6
\* largest maxSentences argument tried
MaxK == 2
\* calls made in a row in SpecCalls
MaxCalls == 3
\* last second of the clock in SpecHttp
MaxTime == 4
\* the limit given to userRateLimiter on /api/summarize (60 in the source)
SummarizeLimit == 2
\* the limit given to userRateLimiter on /api/ocr (20 in the source)
OcrLimit == 1
\* the windowSec given to userRateLimiter on both routes (60 in the source)
WindowSec == 2
\* requests one key is followed for past the summarize limit
MaxOver == 2

VARIABLES
  version,         \* which of the two server versions of the file runs
  inputText,       \* summarizeExtractive: the argument inputText
  maxSentences,    \* summarizeExtractive: the argument maxSentences
  sentences,       \* summarizeExtractive: const sentences
  wordFreq,        \* summarizeExtractive: const wordFreq
  sentenceScores,  \* summarizeExtractive: const sentenceScores
  top,             \* summarizeExtractive: const top
  ordered,         \* summarizeExtractive: const ordered
  result,          \* summarizeExtractive: the returned string
  pc,              \* "call": the call is running, "done": it has returned
  calls,           \* the calls that have returned, in order: [doc, maxS, out]
  DISABLE_OPENAI,  \* process.env.DISABLE_OPENAI, '' when unset
  OPENAI_KEY,      \* whether process.env.OPENAI_API_KEY is set
  supabase,        \* whether the Supabase client was created
  redis,           \* whether REDIS_URL is set and the Redis client was made
  redisKeys,       \* the limiter keys in Redis: key -> [count, expiry,
                   \* created]; expiry is <<>> for a key without a TTL,
                   \* created records when the key was made
  inMemoryRate,    \* const inMemoryRate: key -> [start, count]
  now,             \* Math.floor(Date.now() / 1000)
  req,             \* the request being served and its response
  admitted         \* key -> [window, count, sent]: of the key's latest
                   \* window, the summarize requests the limiter passed on
                   \* and the summarize requests it was sent

coreVars == <<inputText, maxSentences, sentences, wordFreq,
              sentenceScores, top, ordered, result, pc, calls>>

httpVars == <<DISABLE_OPENAI, OPENAI_KEY, supabase, redis, redisKeys,
              inMemoryRate, now, req, admitted>>

vars == <<version, coreVars, httpVars>>

(***************************************************************************)
(* Characters.                                                             *)
(***************************************************************************)
\* the characters documents are drawn from: a word letter, the one-letter
\* stop-word 'u' in upper case, a terminator, a space, a newline
Alphabet == {"a", "U", ".", " ", "\n"}

\* the character U+FEFF
BOM == "BOM"

\* /\s/ and String.prototype.trim agree on what whitespace is; U+FEFF is
\* whitespace to both
Whitespace == {" ", "\n", "\r", "\t", BOM}

\* the lookbehind class [.!?]
Terminators == {".", "!", "?"}

UpperLetters ==
  <<"A","B","C","D","E","F","G","H","I","J","K","L","M",
    "N","O","P","Q","R","S","T","U","V","W","X","Y","Z">>

LowerLetters ==
  <<"a","b","c","d","e","f","g","h","i","j","k","l","m",
    "n","o","p","q","r","s","t","u","v","w","x","y","z">>

Digits == {"0","1","2","3","4","5","6","7","8","9"}

\* the class [a-z0-9\u00C0-\u017F\s] kept by the tokenizer; the accented
\* block has no member among the ASCII characters of the model
WordChars == {LowerLetters[i] : i \in 1..26} \cup Digits \cup Whitespace

toLowerCase(s) ==
  [i \in 1..Len(s) |->
     IF \E k \in 1..26 : UpperLetters[k] = s[i]
     THEN LowerLetters[CHOOSE k \in 1..26 : UpperLetters[k] = s[i]]
     ELSE s[i]]

(***************************************************************************)
(* String helpers of the summarizer.                                       *)
(***************************************************************************)
RECURSIVE replaceCRLF(_)
\* .replace(/\r\n/g, ' ')
replaceCRLF(s) ==
  IF s = <<>> THEN <<>>
  ELSE IF Len(s) >= 2 /\ s[1] = "\r" /\ s[2] = "\n"
       THEN <<" ">> \o replaceCRLF(SubSeq(s, 3, Len(s)))
       ELSE <<s[1]>> \o replaceCRLF(Tail(s))

\* .replace(/\n/g, ' ')
replaceLF(s) == [i \in 1..Len(s) |-> IF s[i] = "\n" THEN " " ELSE s[i]]

\* const text = inputText.replace(/\r\n/g, ' ').replace(/\n/g, ' ')
normalizeText(s) == replaceLF(replaceCRLF(s))

RECURSIVE skipSpaces(_, _)
\* first index >= i of s that holds no whitespace (Len(s)+1 if none)
skipSpaces(s, i) ==
  IF i <= Len(s) /\ s[i] \in Whitespace THEN skipSpaces(s, i + 1) ELSE i

RECURSIVE splitDroppingTerminator(_, _, _)
\* a split on /[.!?]\s+/, which consumes the terminator with the whitespace
splitDroppingTerminator(s, i, cur) ==
  IF i > Len(s) THEN <<cur>>
  ELSE IF s[i] \in Terminators /\ i < Len(s) /\ s[i+1] \in Whitespace
       THEN <<cur>> \o splitDroppingTerminator(s, skipSpaces(s, i + 1), <<>>)
       ELSE splitDroppingTerminator(s, i + 1, Append(cur, s[i]))

RECURSIVE splitAfterTerminator(_, _, _)
\* text.split(/(?<=[.!?])\s+/): the pieces between the whitespace runs that
\* directly follow a terminator; cur is the piece being collected
splitAfterTerminator(s, i, cur) ==
  IF i > Len(s) THEN <<cur>>
  ELSE IF s[i] \in Whitespace /\ i > 1 /\ s[i-1] \in Terminators
       THEN <<cur>> \o splitAfterTerminator(s, skipSpaces(s, i), <<>>)
       ELSE splitAfterTerminator(s, i + 1, Append(cur, s[i]))

RECURSIVE trimStart(_)
trimStart(s) ==
  IF s # <<>> /\ s[1] \in Whitespace THEN trimStart(Tail(s)) ELSE s

RECURSIVE trimEnd(_)
trimEnd(s) ==
  IF s # <<>> /\ s[Len(s)] \in Whitespace
  THEN trimEnd(SubSeq(s, 1, Len(s) - 1)) ELSE s

\* String.prototype.trim
trim(s) == trimEnd(trimStart(s))

NonEmpty(p) == p # <<>>

\* .map(s => s.trim()).filter(Boolean) applied to the split pieces
splitSentences(text) ==
  LET pieces == splitAfterTerminator(text, 1, <<>>)
  IN  SelectSeq([i \in 1..Len(pieces) |-> trim(pieces[i])], NonEmpty)

RECURSIVE splitSpaces(_, _, _)
\* .split(/\s+/): the pieces between whitespace runs
splitSpaces(s, i, cur) ==
  IF i > Len(s) THEN <<cur>>
  ELSE IF s[i] \in Whitespace
       THEN <<cur>> \o splitSpaces(s, skipSpaces(s, i), <<>>)
       ELSE splitSpaces(s, i + 1, Append(cur, s[i]))

\* .replace(/[^a-z0-9\u00C0-\u017F\s]/g, ' ')
stripNonWord(s) ==
  [i \in 1..Len(s) |-> IF s[i] \in WordChars THEN s[i] ELSE " "]

\* s.toLowerCase().replace(...).split(/\s+/).filter(Boolean)
tokenize(s) == SelectSeq(splitSpaces(stripNonWord(toLowerCase(s)), 1, <<>>), NonEmpty)

RECURSIVE joinWith(_, _)
\* Array.prototype.join(sep)
joinWith(list, sep) ==
  IF list = <<>> THEN <<>>
  ELSE IF Len(list) = 1 THEN list[1]
       ELSE list[1] \o sep \o joinWith(Tail(list), sep)

joinNoSeparator(list) == joinWith(list, <<>>)

\* sentences.join(' ')
joinSpace(list) == joinWith(list, <<" ">>)

(***************************************************************************)
(* The summarizer: frequency table, scores, selection.                     *)
(***************************************************************************)
stopwordsV1 ==
  { <<"d","e">>, <<"h","e","t">>, <<"e","e","n">>, <<"e","n">>,
    <<"v","a","n">>, <<"i","k">>, <<"j","e">>, <<"u">>, <<"w","e">>,
    <<"d","a","t">>, <<"d","i","e">>, <<"i","n">>, <<"o","p">>,
    <<"t","e">>, <<"i","s">>, <<"o","m">>, <<"a","a","n">>,
    <<"v","o","o","r">>, <<"m","e","t">>, <<"a","l","s">>,
    <<"z","i","j","n">>, <<"w","a","s">>, <<"w","e","r","d">>,
    <<"b","i","j">>, <<"d","o","o","r">>, <<"n","a","a","r">> }

\* version 2 adds 'jij'
stopwordsV2 == stopwordsV1 \cup { <<"j","i","j">> }

stopwords(v) == IF v = 1 THEN stopwordsV1 ELSE stopwordsV2

noStopword(v, w) == FALSE

\* stopwords.has(w)
isStopword(v, w) == w \in stopwords(v)

\* Object.create(null): a table with no key
emptyTable == [w \in {} |-> 0]

\* wordFreq[w] || 0
lookup(table, w) == IF w \in DOMAIN table THEN table[w] ELSE 0

RECURSIVE countWords(_, _, _)
\* for (const w of words) if (!stopwords.has(w)) wordFreq[w] = (wordFreq[w] || 0) + 1
countWords(v, table, words) ==
  IF words = <<>> THEN table
  ELSE LET w == words[1]
           next == IF isStopword(v, w) THEN table
                   ELSE [x \in DOMAIN table \cup {w} |->
                           IF x = w THEN lookup(table, w) + 1 ELSE table[x]]
       IN  countWords(v, next, Tail(words))

\* a score that counts each word of the sentence once
sumDistinct(table, ws) ==
  LET words == {ws[p] : p \in 1..Len(ws)}
      F[S \in SUBSET words] ==
        IF S = {} THEN 0
        ELSE LET w == CHOOSE x \in S : TRUE
             IN  lookup(table, w) + F[S \ {w}]
  IN  F[words]

RECURSIVE sumFreq(_, _)
\* let score = 0; for (const w of ws) if (wordFreq[w]) score += wordFreq[w]
sumFreq(table, ws) ==
  IF ws = <<>> THEN 0 ELSE lookup(table, ws[1]) + sumFreq(table, Tail(ws))

\* sentences.map(s => ({ sentence: s, score }))
scoreSentences(table, list) ==
  [i \in 1..Len(list) |->
     [sentence |-> list[i], score |-> sumFreq(table, tokenize(list[i]))]]

RECURSIVE insertLaterFirst(_, _)
insertLaterFirst(sorted, x) ==
  IF sorted = <<>> THEN <<x>>
  ELSE IF sorted[1].score > x.score
       THEN <<sorted[1]>> \o insertLaterFirst(Tail(sorted), x)
       ELSE <<x>> \o sorted

RECURSIVE insertByScore(_, _)
\* where the stable sort with comparator (a,b) => b.score - a.score puts x
\* among the elements that precede it in the input: after every element
\* whose score is not smaller
insertByScore(sorted, x) ==
  IF sorted = <<>> THEN <<x>>
  ELSE IF sorted[1].score >= x.score
       THEN <<sorted[1]>> \o insertByScore(Tail(sorted), x)
       ELSE <<x>> \o sorted

RECURSIVE sortByScoreDesc(_, _)
\* sentenceScores.slice().sort((a,b) => b.score - a.score); done is the
\* sorted prefix, rest the elements still to place
sortByScoreDesc(done, rest) ==
  IF rest = <<>> THEN done
  ELSE sortByScoreDesc(insertByScore(done, rest[1]), Tail(rest))

noSlice(list, n) == list

\* list.slice(0, n)
sliceTo(list, n) == SubSeq(list, 1, IF n < Len(list) THEN n ELSE Len(list))

\* .sort(...).slice(0, maxSentences).map(x => x.sentence)
topSentences(scores, maxS) ==
  LET best == SubSeq(sortByScoreDesc(<<>>, scores), 1,
                     IF maxS < Len(scores) THEN maxS ELSE Len(scores))
  IN  [i \in 1..Len(best) |-> best[i].sentence]

Range(list) == {list[i] : i \in 1..Len(list)}

scoreOrder(list, chosen) == chosen

\* a filter that keeps one entry per chosen text, its first
filterFirstOccurrence(list, chosen) ==
  LET keep == {i \in 1..Len(list) :
                 /\ list[i] \in Range(chosen)
                 /\ \A j \in 1..(i - 1) : list[j] # list[i]}
      index == [n \in 1..Cardinality(keep) |->
                  CHOOSE i \in keep : Cardinality({j \in keep : j < i}) = n - 1]
  IN  [n \in 1..Cardinality(keep) |-> list[index[n]]]

\* sentences.filter(s => top.includes(s))
filterIncluded(list, chosen) ==
  SelectSeq(list, LAMBDA s : s \in Range(chosen))

\* The body of summarizeExtractive run with table as the value wordFreq is
\* given at line 260; the record holds the locals once the call has returned.
\* sentenceScores, top and ordered are not created on the short-circuit path.
summarizeFrom(v, table, doc, maxS) ==
  LET text == normalizeText(doc)
      sents == splitSentences(text)
  IN  IF Len(sents) <= maxS
      THEN [sentences |-> sents, wordFreq |-> table,
            sentenceScores |-> <<>>, top |-> <<>>, ordered |-> <<>>,
            scored |-> FALSE, result |-> joinSpace(sents)]
      ELSE LET freq == countWords(v, table, tokenize(text))
               scores == scoreSentences(freq, sents)
               best == topSentences(scores, maxS)
               ord == filterIncluded(sents, best)
           IN  [sentences |-> sents, wordFreq |-> freq,
                sentenceScores |-> scores, top |-> best, ordered |-> ord,
                scored |-> TRUE, result |-> joinSpace(sliceTo(ord, maxS))]

\* a summarizer that keeps its frequency table between calls
summarizeMemoized(v, doc, maxS) == summarizeFrom(v, wordFreq, doc, maxS)

\* function summarizeExtractive(inputText, maxSentences = 3): wordFreq starts
\* as Object.create(null) in every call
summarizeExtractive(v, doc, maxS) == summarizeFrom(v, emptyTable, doc, maxS)

(***************************************************************************)
(* SpecPure: one call of summarizeExtractive on every document of at most  *)
(* MaxLen characters and every maxSentences in 1..MaxK.                    *)
(***************************************************************************)
Documents == UNION {[1..n -> Alphabet] : n \in 0..MaxLen}

Versions == {1, 2}

\* no request yet
noRequest ==
  [stage |-> "none", endpoint |-> "none", user |-> "none",
   text |-> [kind |-> "undefined", chars |-> <<>>, truthy |-> FALSE],
   status |-> 0, error |-> "none", summary |-> <<>>, source |-> "none",
   handled |-> FALSE, invoked |-> FALSE, openai |-> "none", db |-> "none", saved |-> FALSE,
   window |-> 0, before |-> 0, time |-> 0, sent |-> 0, began |-> 0]

\* the server state SpecPure and SpecCalls leave alone
httpIdle ==
  /\ DISABLE_OPENAI = <<>>
  /\ OPENAI_KEY = FALSE
  /\ supabase = FALSE
  /\ redis = FALSE
  /\ redisKeys = [k \in {} |-> 0]
  /\ inMemoryRate = [k \in {} |-> 0]
  /\ now = 0
  /\ req = noRequest
  /\ admitted = [k \in {} |-> 0]

InitPure ==
  /\ version \in Versions
  /\ inputText \in Documents
  /\ maxSentences \in 1..MaxK
  /\ pc = "call"
  /\ sentences = <<>>
  /\ wordFreq = emptyTable
  /\ sentenceScores = <<>>
  /\ top = <<>>
  /\ ordered = <<>>
  /\ result = <<>>
  /\ calls = <<>>
  /\ httpIdle

\* the call returns; r holds its locals
Return(r) ==
  /\ sentences' = r.sentences
  /\ wordFreq' = r.wordFreq
  /\ sentenceScores' = r.sentenceScores
  /\ top' = r.top
  /\ ordered' = r.ordered
  /\ result' = r.result
  /\ pc' = "done"

\* line 258: if (sentences.length <= maxSentences) return sentences.join(' ')
ReturnShort ==
  /\ pc = "call"
  /\ LET r == summarizeExtractive(version, inputText, maxSentences)
     IN  ~r.scored /\ Return(r)
  /\ UNCHANGED <<version, inputText, maxSentences, calls, httpVars>>

\* lines 259-271: the scoring path
ReturnScored ==
  /\ pc = "call"
  /\ LET r == summarizeExtractive(version, inputText, maxSentences)
     IN  r.scored /\ Return(r)
  /\ UNCHANGED <<version, inputText, maxSentences, calls, httpVars>>

NextPure == ReturnShort \/ ReturnScored

SpecPure == InitPure /\ [][NextPure]_vars

(***************************************************************************)
(* Properties of summarizeExtractive, checked under SpecPure.              *)
(***************************************************************************)
RECURSIVE TotalLen(_)
TotalLen(list) == IF list = <<>> THEN 0 ELSE Len(list[1]) + TotalLen(Tail(list))

\* where list[i] starts in the space-joined string, minus one
Offset(list, i) == TotalLen(SubSeq(list, 1, i - 1)) + (i - 1)

\* out is the elements of list, in order, with one space between neighbours
IsSpaceJoined(out, list) ==
  /\ Len(out) = TotalLen(list) + (IF list = <<>> THEN 0 ELSE Len(list) - 1)
  /\ \A i \in 1..Len(list) :
       SubSeq(out, Offset(list, i) + 1, Offset(list, i) + Len(list[i])) = list[i]
  /\ \A i \in 2..Len(list) : out[Offset(list, i)] = " "

Distinct(list) ==
  \A i, j \in 1..Len(list) : list[i] = list[j] => i = j

\* the sentences of the returned string, by the same boundary rule
OutputSentences == splitSentences(result)

Returned == pc = "done"

LongDocument == Returned /\ Len(sentences) > maxSentences

\* C1: a document that segments into k <= maxSentences sentences (k = 0
\* included) is returned as exactly those k sentences, in order, joined by
\* single spaces; the empty string when k = 0.
C1_ShortDocumentReturnedWhole ==
  (Returned /\ Len(sentences) <= maxSentences) =>
     /\ IsSpaceJoined(result, sentences)
     /\ OutputSentences = sentences
     /\ (sentences = <<>> => result = <<>>)

\* a two-sentence document summarized with maxSentences = 2
C1_Witness ==
  /\ Returned
  /\ maxSentences = 2
  /\ Len(sentences) = 2
  /\ sentences[1] # sentences[2]

\* position j is ranked before position i: higher score, or equal score and
\* earlier in the document
RankedBefore(j, i) ==
  \/ sentenceScores[j].score > sentenceScores[i].score
  \/ sentenceScores[j].score = sentenceScores[i].score /\ j < i

\* the positions of the first maxSentences entries of that ranking
TopPositions ==
  {i \in 1..Len(sentences) :
     Cardinality({j \in 1..Len(sentences) : RankedBefore(j, i)}) < maxSentences}

\* C2: with pairwise distinct sentences and more than maxSentences of them,
\* the sentences of the output are exactly the first maxSentences of the
\* ranking by score descending, ties to the earlier sentence.
C2_OutputIsTopRanked ==
  (LongDocument /\ Distinct(sentences)) =>
     Range(OutputSentences) = {sentences[i] : i \in TopPositions}

\* a tie at the cut: two distinct sentences of equal score compete for the
\* last place
C2_Witness ==
  /\ LongDocument
  /\ Distinct(sentences)
  /\ \E i \in TopPositions : \E j \in 1..Len(sentences) \ TopPositions :
       sentenceScores[i].score = sentenceScores[j].score

\* the position of a sentence of the document
PositionOf(s) == CHOOSE i \in 1..Len(sentences) : sentences[i] = s

\* C3: with unique sentence text the output sentences are a subsequence of
\* the document's sentences: document order, never score order.
C3_OutputInDocumentOrder ==
  (Returned /\ Distinct(sentences)) =>
     /\ \A a \in 1..Len(OutputSentences) : OutputSentences[a] \in Range(sentences)
     /\ \A a, b \in 1..Len(OutputSentences) :
          a < b => PositionOf(OutputSentences[a]) < PositionOf(OutputSentences[b])

\* the scoring path chose sentences whose score order is not document order
C3_Witness ==
  /\ LongDocument
  /\ Distinct(sentences)
  /\ Len(top) >= 2
  /\ top # OutputSentences

\* C4: with more than maxSentences sentences the output has at most
\* maxSentences sentences, and exactly maxSentences when they are distinct.
C4_OutputCardinality ==
  LongDocument =>
     /\ Len(OutputSentences) <= maxSentences
     /\ (Distinct(sentences) => Len(OutputSentences) = maxSentences)

\* the text filter kept more entries than maxSentences and the slice cut them
C4_Witness ==
  /\ LongDocument
  /\ Len(ordered) > maxSentences
  /\ Len(OutputSentences) = maxSentences

\* every word of the document is a stop-word of the running version
OnlyStopwords ==
  \A w \in Range(tokenize(normalizeText(inputText))) : w \in stopwords(version)

\* C5: a document of stop-words and punctuation with more than maxSentences
\* sentences scores 0 everywhere and yields its first maxSentences sentences.
C5_StopwordNeutrality ==
  (LongDocument /\ OnlyStopwords) =>
     /\ \A i \in 1..Len(sentenceScores) : sentenceScores[i].score = 0
     /\ IsSpaceJoined(result, SubSeq(sentences, 1, maxSentences))

\* such a document that does hold stop-words, in more than one sentence
C5_Witness ==
  /\ LongDocument
  /\ OnlyStopwords
  /\ Cardinality({i \in 1..Len(sentences) : tokenize(sentences[i]) # <<>>}) >= 2

DocumentWords == tokenize(normalizeText(inputText))

\* how often word w occurs in the list words
Occurrences(words, w) ==
  Cardinality({q \in 1..Len(words) : words[q] = w})

RECURSIVE SumOver(_, _)
\* the sum of weight[p] over the positions p of the set
SumOver(weight, positions) ==
  IF positions = {} THEN 0
  ELSE LET p == CHOOSE x \in positions : TRUE
       IN  weight[p] + SumOver(weight, positions \ {p})

\* the score C12 gives sentence s: every occurrence of a word that is no
\* stop-word adds that word's number of occurrences in the document
ExpectedScore(s) ==
  LET ws == tokenize(s)
      doc == DocumentWords
      weight == [p \in 1..Len(ws) |->
                   IF ws[p] \in stopwords(version) THEN 0
                   ELSE Occurrences(doc, ws[p])]
  IN  SumOver(weight, 1..Len(ws))

\* C12: on the scoring path the score of each sentence is the sum, over its
\* token occurrences that are no stop-words, of the token's occurrence count
\* in the whole normalized document; stop-words add nothing.
C12_ScoreIsSumOfDocumentCounts ==
  LongDocument =>
     /\ Len(sentenceScores) = Len(sentences)
     /\ \A i \in 1..Len(sentences) :
          /\ sentenceScores[i].sentence = sentences[i]
          /\ sentenceScores[i].score = ExpectedScore(sentences[i])

\* a sentence that repeats a word that is no stop-word, beside a sentence
\* of stop-words only
C12_Witness ==
  /\ LongDocument
  /\ \E i, j \in 1..Len(sentences) :
       /\ \E p, q \in 1..Len(tokenize(sentences[i])) :
            /\ p # q
            /\ tokenize(sentences[i])[p] = tokenize(sentences[i])[q]
            /\ tokenize(sentences[i])[p] \notin stopwords(version)
       /\ sentenceScores[i].score >= 4
       /\ tokenize(sentences[j]) # <<>>
       /\ sentenceScores[j].score = 0

\* the characters of s that are no whitespace, in order
NonWhitespace(s) ==
  LET Solid(c) == c \notin Whitespace
  IN  SelectSeq(s, Solid)

\* position i of s is whitespace in a run that directly follows a terminator
AtBoundary(s, i) ==
  /\ s[i] \in Whitespace
  /\ \E t \in 1..(i - 1) :
       /\ s[t] \in Terminators
       /\ \A j \in (t + 1)..i : s[j] \in Whitespace

\* s with each whitespace run that directly follows a terminator replaced by
\* one space: of such a run only its first position is kept, as a space
CollapseBoundaries(s) ==
  LET marked == [i \in 1..Len(s) |->
                   IF ~AtBoundary(s, i) THEN s[i]
                   ELSE IF s[i-1] \in Terminators THEN " " ELSE "dropped"]
      Kept(c) == c # "dropped"
  IN  SelectSeq(marked, Kept)

\* C13: joining the sentences with single spaces gives the normalized text
\* with whitespace removed at its ends and each whitespace run at a sentence
\* boundary replaced by one space; the characters that are no whitespace are
\* those of the normalized text in the same order, and every sentence that
\* is followed by another ends in its terminator.
C13_SegmentationNonDestructive ==
  Returned =>
     /\ joinSpace(sentences) = CollapseBoundaries(trim(normalizeText(inputText)))
     /\ NonWhitespace(joinSpace(sentences)) = NonWhitespace(normalizeText(inputText))
     /\ \A i \in 1..Len(sentences) :
          /\ sentences[i] # <<>>
          /\ i < Len(sentences) => sentences[i][Len(sentences[i])] \in Terminators

\* whitespace before the first sentence, and a boundary of two whitespace
\* characters between two sentences
C13_Witness ==
  /\ Returned
  /\ Len(sentences) >= 2
  /\ inputText[1] \in Whitespace
  /\ \E i \in 1..(Len(inputText) - 3) :
       /\ inputText[i] \in Terminators
       /\ inputText[i+1] \in Whitespace
       /\ inputText[i+2] \in Whitespace
       /\ inputText[i+3] \notin Whitespace

\* the position ranked before every other: the highest score, the earliest
\* of those that share it
BestPosition ==
  CHOOSE b \in 1..Len(sentences) :
     \A j \in 1..Len(sentences) : j # b => RankedBefore(b, j)

\* C14: for every document with more than maxSentences sentences, duplicate
\* sentence text included, the output holds the highest-scoring sentence
\* (the earliest among ties), and no sentence left out of the output has a
\* strictly higher score than a sentence kept in it.
C14_HighestScoringSentenceKept ==
  LongDocument =>
     /\ sentences[BestPosition] \in Range(OutputSentences)
     /\ \A i, j \in 1..Len(sentences) :
          (/\ sentences[i] \notin Range(OutputSentences)
           /\ sentences[j] \in Range(OutputSentences))
          => sentenceScores[i].score <= sentenceScores[j].score

(***************************************************************************)
(* SpecCalls: up to MaxCalls calls of summarizeExtractive in a row on      *)
(* documents of CallDocuments, as the process makes them request after     *)
(* request.                                                                *)
(***************************************************************************)
CallDocuments ==
  { <<"a", ".", " ", "a", "a">>,
    <<"a", "a", ".", " ", "U">>,
    <<"a", "a", ".", " ", "a", ".", " ", "U", " ", "a">> }

InitCalls ==
  /\ version \in Versions
  /\ inputText = <<>>
  /\ maxSentences = 1
  /\ pc = "done"
  /\ sentences = <<>>
  /\ wordFreq = emptyTable
  /\ sentenceScores = <<>>
  /\ top = <<>>
  /\ ordered = <<>>
  /\ result = <<>>
  /\ calls = <<>>
  /\ httpIdle

\* one whole call summarizeExtractive(doc, maxS)
Call(doc, maxS) ==
  /\ Len(calls) < MaxCalls
  /\ inputText' = doc
  /\ maxSentences' = maxS
  /\ LET r == summarizeExtractive(version, doc, maxS)
     IN  /\ Return(r)
         /\ calls' = Append(calls, [doc |-> doc, maxS |-> maxS, out |-> r.result])
  /\ UNCHANGED <<version, httpVars>>

NextCalls == \E doc \in CallDocuments, maxS \in 1..MaxK : Call(doc, maxS)

SpecCalls == InitCalls /\ [][NextCalls]_vars

Users == {"u1", "u2"}

\* req.body.text: absent, a number, or a string
Undefined == [kind |-> "undefined", chars |-> <<>>, truthy |-> FALSE]
Number(n) == [kind |-> "number", chars |-> <<>>, truthy |-> n # 0]
String(chars) == [kind |-> "string", chars |-> chars, truthy |-> chars # <<>>]

BodyTexts ==
  { Undefined, Number(0), Number(7),
    String(<<>>),
    String(<<" ", "\n">>),
    String(<<BOM>>),
    String(<<BOM, "a", ".", " ", "U">>),
    String(<<"a", "a", ".", " ", "a", ".", "\n", "U", ".", " ", "a", " ", "a", "!", " ">>) }

EnvValues == { <<>>, <<"1">>, <<" ", "1">> }

\* line 18: String(process.env.DISABLE_OPENAI || '').trim() === '1'
\* line 350: process.env.DISABLE_OPENAI === '1'
disabled(v) ==
  IF v = 1 THEN trim(DISABLE_OPENAI) = <<"1">> ELSE DISABLE_OPENAI = <<"1">>

fallbackOnlyWhenDisabled(v) == disabled(v)

\* line 143: if (DISABLE_OPENAI || !OPENAI_KEY); line 350: if (... === '1')
useFallback(v) == IF v = 1 THEN disabled(1) \/ ~OPENAI_KEY ELSE disabled(2)

\* function stripBOM(s), called on strings only
stripBOM(chars) ==
  IF chars = <<>> THEN chars
  ELSE IF chars[1] = BOM THEN Tail(chars) ELSE chars

\* line 141: typeof text !== 'string' || !text.trim()
rejectsTextV1(t) == t.kind # "string" \/ trim(t.chars) = <<>>

\* line 347: if (typeof text === 'string') text = stripBOM(text).trim()
cleanTextV2(t) ==
  IF t.kind = "string" THEN String(trim(stripBOM(t.chars))) ELSE t

\* line 348: if (!text)
rejectsTextV2(t) == ~cleanTextV2(t).truthy

\* what the language model answers with
LlmContent == <<"l", "l", "m">>

\* fetch and openaiRes.json(): "ok", "badJson" (status < 400, body no JSON),
\* "httpError" (status >= 400), "throws" (fetch rejects)
OpenAiOutcomes == {"ok", "badJson", "httpError", "throws"}

\* supabase.from('summaries').insert(payload)
DbOutcomes == {"ok", "error", "throws"}

saveRethrows(configured, db) ==
  [threw |-> configured /\ db = "throws", saved |-> configured /\ db = "ok"]

\* async function saveSummaryToDB: try { if (!supabase) return; ... insert ...
\* if (error) console.warn } catch { console.error }
saveSummaryToDB(configured, db) ==
  [threw |-> FALSE, saved |-> configured /\ db = "ok"]

\* the server has started and no request has come in
serverStarted ==
  /\ redisKeys = [k \in {} |-> 0]
  /\ inMemoryRate = [k \in {} |-> 0]
  /\ now = 0
  /\ req = noRequest
  /\ admitted = [k \in {} |-> 0]
  /\ inputText = <<>>
  /\ maxSentences = 3
  /\ pc = "done"
  /\ sentences = <<>>
  /\ wordFreq = emptyTable
  /\ sentenceScores = <<>>
  /\ top = <<>>
  /\ ordered = <<>>
  /\ result = <<>>
  /\ calls = <<>>

InitHttp ==
  /\ version \in Versions
  /\ DISABLE_OPENAI \in EnvValues
  /\ OPENAI_KEY \in BOOLEAN
  /\ supabase \in (IF version = 1 THEN BOOLEAN ELSE {FALSE})
  /\ redis = FALSE
  /\ serverStarted

InitRate ==
  /\ version = 1
  /\ DISABLE_OPENAI = <<"1">>
  /\ OPENAI_KEY = FALSE
  /\ supabase = TRUE
  /\ redis = FALSE
  /\ serverStarted

\* the protected server with the fallback path on, with or without REDIS_URL
InitRedis ==
  /\ version = 1
  /\ DISABLE_OPENAI = <<"1">>
  /\ OPENAI_KEY = FALSE
  /\ supabase = TRUE
  /\ redis \in BOOLEAN
  /\ serverStarted

Routes(v) == IF v = 1 THEN {"summarize", "ocr"} ELSE {"summarize"}

\* a request comes in once the one before has been answered; version 1
\* routes it to requireAuth, version 2 straight to the handler
Arrive(endpoint) ==
  /\ req.stage \in {"none", "done"}
  /\ endpoint \in Routes(version)
  /\ req' = [noRequest EXCEPT !.stage = IF version = 1 THEN "auth" ELSE "handler",
                              !.endpoint = endpoint]
  /\ UNCHANGED <<version, coreVars, DISABLE_OPENAI, OPENAI_KEY, supabase, redis,
                 redisKeys,
                 inMemoryRate, now, admitted>>

respond(r, status, error) ==
  [r EXCEPT !.stage = "done", !.status = status, !.error = error]

\* async function requireAuth(req, res, next); hasToken: the Authorization
\* header carries a token, getUser: what supabase.auth.getUser answers
requireAuth(hasToken, getUser) ==
  /\ req.stage = "auth"
  /\ req' = IF ~hasToken THEN respond(req, 401, "Missing Authorization token")
            ELSE IF ~supabase
                 THEN respond(req, 500, "Server misconfiguration")
            ELSE IF getUser = "invalid" THEN respond(req, 401, "Invalid token")
            ELSE IF getUser = "throws"
                 THEN respond(req, 500, "Auth validation failed")
            ELSE [req EXCEPT !.stage = "limit", !.user = getUser]
  /\ UNCHANGED <<version, coreVars, DISABLE_OPENAI, OPENAI_KEY, supabase, redis,
                 redisKeys,
                 inMemoryRate, now, admitted>>

\* inMemoryRate.get(key) || { start: now, count: 0 }
getEntry(key) ==
  IF key \in DOMAIN inMemoryRate THEN inMemoryRate[key]
  ELSE [start |-> now, count |-> 0]

resetToZero(entry, windowSec) ==
  IF now - entry.start >= windowSec
  THEN [start |-> now, count |-> 0]
  ELSE [entry EXCEPT !.count = entry.count + 1]

\* lines 89-94: a new window counts this request as its first
bumpEntry(entry, windowSec) ==
  IF now - entry.start >= windowSec
  THEN [start |-> now, count |-> 1]
  ELSE [entry EXCEPT !.count = entry.count + 1]

limitOf(endpoint) == IF endpoint = "summarize" THEN SummarizeLimit ELSE OcrLimit

\* the summarize requests of key passed on so far in the window from start
passedOn(key, start) ==
  IF key \in DOMAIN admitted /\ admitted[key].window = start
  THEN admitted[key].count ELSE 0

\* the summarize requests of key that reached the limiter so far in the
\* window from start
sentIn(key, start) ==
  IF key \in DOMAIN admitted /\ admitted[key].window = start
  THEN admitted[key].sent ELSE 0

\* userRateLimiter({ limit, windowSec }), the branch without Redis; the key
\* is req.user.id, which requireAuth has set
userRateLimiter ==
  /\ req.stage = "limit"
  /\ ~redis
  /\ LET key == req.user
         entry == bumpEntry(getEntry(key), WindowSec)
         passes == ~(entry.count > limitOf(req.endpoint))
         before == passedOn(key, entry.start)
         counted == passes /\ req.endpoint = "summarize"
         sent == sentIn(key, entry.start)
                   + (IF req.endpoint = "summarize" THEN 1 ELSE 0)
         judged == [req EXCEPT !.window = entry.start,
                               !.before = before,
                               !.time = now,
                               !.sent = sent,
                               !.began = getEntry(key).start]
     IN  /\ entry.count <= SummarizeLimit + MaxOver
         /\ inMemoryRate' = [k \in DOMAIN inMemoryRate \cup {key} |->
                               IF k = key THEN entry ELSE inMemoryRate[k]]
         /\ req' = IF passes
                   THEN [judged EXCEPT !.stage = "handler"]
                   ELSE respond(judged, 429, "Too many requests")
         /\ admitted' = [k \in DOMAIN admitted \cup {key} |->
                           IF k = key
                           THEN [window |-> entry.start,
                                 count |-> IF counted THEN before + 1 ELSE before,
                                 sent |-> sent]
                           ELSE admitted[k]]
  /\ UNCHANGED <<version, coreVars, DISABLE_OPENAI, OPENAI_KEY, supabase, redis,
                 redisKeys, now>>

RedisOutcomes == {"ok", "throws"}

\* the key has a TTL and it has run out
expired(entry) == entry.expiry # <<>> /\ now >= entry.expiry[1]

\* userRateLimiter({ limit, windowSec }), the branch with Redis, lines 83-86
\* and the catch of lines 99-102; incr and expire are the outcomes of
\* redis.incr and redis.expire, a call that throws leaves Redis as it was
userRateLimiterRedis(incr, expire) ==
  /\ req.stage = "limit"
  /\ redis
  /\ LET key == req.user
         stored == key \in DOMAIN redisKeys
         live == stored /\ ~expired(redisKeys[key])
         added == IF live THEN redisKeys[key].count + 1 ELSE 1
         entry == IF added = 1
                  THEN [count |-> 1,
                        expiry |-> IF expire = "ok" THEN <<now + WindowSec>>
                                   ELSE <<>>,
                        created |-> now]
                  ELSE [redisKeys[key] EXCEPT !.count = added]
         judged == [req EXCEPT !.time = now,
                               !.began = IF stored THEN redisKeys[key].created
                                         ELSE now]
         caught == incr = "throws" \/ (added = 1 /\ expire = "throws")
     IN  /\ added <= SummarizeLimit + MaxOver
         /\ redisKeys' = IF incr = "throws" THEN redisKeys
                         ELSE [k \in DOMAIN redisKeys \cup {key} |->
                                 IF k = key THEN entry ELSE redisKeys[k]]
         /\ req' = IF caught THEN [judged EXCEPT !.stage = "handler"]
                   ELSE IF added > limitOf(req.endpoint)
                        THEN respond(judged, 429, "Too many requests")
                   ELSE [judged EXCEPT !.stage = "handler"]
  /\ UNCHANGED <<version, coreVars, DISABLE_OPENAI, OPENAI_KEY, supabase, redis,
                 inMemoryRate, now, admitted>>

\* lines 160-178 and 370-385: the answer built from the language model's reply
openAiReply(r, v, openai, db) ==
  IF openai = "throws" THEN respond(r, 500, "exception")
  ELSE IF openai = "httpError" THEN respond(r, 500, "OpenAI error")
  ELSE LET summary == IF openai = "ok" THEN LlmContent ELSE <<>>
           save == IF v = 1 THEN saveSummaryToDB(supabase, db)
                   ELSE [threw |-> FALSE, saved |-> FALSE]
       IN  IF save.threw
           THEN [respond(r, 500, "exception") EXCEPT !.db = db]
           ELSE [respond(r, 200, "none")
                   EXCEPT !.summary = summary,
                          !.source = IF v = 1 THEN "openai" ELSE "none",
                          !.db = IF v = 1 THEN db ELSE "none",
                          !.saved = save.saved]

\* app.post('/api/summarize', requireAuth, userRateLimiter(...), handler) of
\* version 1, lines 138-183
summarizeHandlerV1(text, openai, db) ==
  /\ version = 1
  /\ req.stage = "handler"
  /\ req.endpoint = "summarize"
  /\ LET r == [req EXCEPT !.text = text, !.handled = TRUE]
     IN  req' =
           IF rejectsTextV1(text) THEN respond(r, 400, "Missing text")
           ELSE IF useFallback(1)
                THEN LET extractive == summarizeExtractive(1, text.chars, 3).result
                         save == saveSummaryToDB(supabase, db)
                         called == [r EXCEPT !.invoked = TRUE, !.db = db]
                     IN  IF save.threw THEN respond(called, 500, "exception")
                         ELSE [respond(called, 200, "none")
                                 EXCEPT !.summary = extractive,
                                        !.source = "extractive",
                                        !.saved = save.saved]
                ELSE openAiReply([r EXCEPT !.openai = openai], 1, openai, db)
  /\ UNCHANGED <<version, coreVars, DISABLE_OPENAI, OPENAI_KEY, supabase, redis,
                 redisKeys,
                 inMemoryRate, now, admitted>>

\* app.post('/api/summarize', handler) of version 2, lines 343-390; a text
\* that is no string makes inputText.replace throw inside summarizeExtractive
summarizeHandlerV2(text, openai) ==
  /\ version = 2
  /\ req.stage = "handler"
  /\ req.endpoint = "summarize"
  /\ LET r == [req EXCEPT !.text = text, !.handled = TRUE]
         clean == cleanTextV2(text)
     IN  req' =
           IF rejectsTextV2(text) THEN respond(r, 400, "Missing text")
           ELSE IF useFallback(2)
                THEN IF clean.kind # "string"
                     THEN respond([r EXCEPT !.invoked = TRUE], 500, "exception")
                     ELSE [respond([r EXCEPT !.invoked = TRUE], 200, "none")
                             EXCEPT !.summary =
                                      summarizeExtractive(2, clean.chars, 3).result,
                                    !.source = "extractive"]
                ELSE IF ~OPENAI_KEY THEN respond(r, 500, "OpenAI key missing")
                ELSE openAiReply([r EXCEPT !.openai = openai], 2, openai, "none")
  /\ UNCHANGED <<version, coreVars, DISABLE_OPENAI, OPENAI_KEY, supabase, redis,
                 redisKeys,
                 inMemoryRate, now, admitted>>

\* app.post('/api/ocr', requireAuth, userRateLimiter(...), ...): the request
\* is handed to the upload and OCR steps, which are outside the model
ocrHandler ==
  /\ req.stage = "handler"
  /\ req.endpoint = "ocr"
  /\ req' = [req EXCEPT !.stage = "done"]
  /\ UNCHANGED <<version, coreVars, DISABLE_OPENAI, OPENAI_KEY, supabase, redis,
                 redisKeys,
                 inMemoryRate, now, admitted>>

\* a second passes
Tick ==
  /\ now < MaxTime
  /\ now' = now + 1
  /\ UNCHANGED <<version, coreVars, DISABLE_OPENAI, OPENAI_KEY, supabase, redis,
                 redisKeys,
                 inMemoryRate, req, admitted>>

NextHttp ==
  \/ \E endpoint \in {"summarize", "ocr"} : Arrive(endpoint)
  \/ \E hasToken \in BOOLEAN, getUser \in Users \cup {"invalid", "throws"} :
        requireAuth(hasToken, getUser)
  \/ userRateLimiter
  \/ \E text \in BodyTexts, openai \in OpenAiOutcomes, db \in DbOutcomes :
        summarizeHandlerV1(text, openai, db)
  \/ \E text \in BodyTexts, openai \in OpenAiOutcomes :
        summarizeHandlerV2(text, openai)
  \/ ocrHandler

SpecHttp == InitHttp /\ [][NextHttp]_vars

\* the body every request of SpecRate carries
RateText == String(<<"a", ".", " ", "U">>)

NextRate ==
  \/ \E endpoint \in {"summarize", "ocr"} : Arrive(endpoint)
  \/ \E getUser \in Users : requireAuth(TRUE, getUser)
  \/ userRateLimiter
  \/ \E db \in DbOutcomes : summarizeHandlerV1(RateText, "ok", db)
  \/ ocrHandler
  \/ Tick

SpecRate == InitRate /\ [][NextRate]_vars

NextRedis ==
  \/ \E endpoint \in {"summarize", "ocr"} : Arrive(endpoint)
  \/ \E getUser \in Users : requireAuth(TRUE, getUser)
  \/ userRateLimiter
  \/ \E incr \in RedisOutcomes, expire \in RedisOutcomes :
        userRateLimiterRedis(incr, expire)
  \/ \E db \in DbOutcomes : summarizeHandlerV1(RateText, "ok", db)
  \/ ocrHandler
  \/ Tick

SpecRedis == InitRedis /\ [][NextRedis]_vars

(***************************************************************************)
(* Properties of the /api/summarize pipeline.                              *)
(***************************************************************************)
\* the summarize handler has answered the request
Answered == req.stage = "done" /\ req.endpoint = "summarize" /\ req.handled

\* absent, no string, empty or whitespace-only
InvalidDocument(t) == t.kind # "string" \/ trim(t.chars) = <<>>

\* what the fallback makes of the request's text
Extractive == summarizeExtractive(version, req.text.chars, 3).result

\* C7: in both versions a request with a missing or invalid document is
\* answered 400 and summarizeExtractive is not invoked for it.
C7_InvalidDocumentRejected ==
  (Answered /\ InvalidDocument(req.text)) =>
     (req.status = 400 /\ ~req.invoked)

OpenAiFailed == req.openai \in {"httpError", "throws"}

ServedByFallback ==
  /\ req.status = 200
  /\ req.source = "extractive"
  /\ req.summary = Extractive

\* C8 as claimed: with a valid document, whenever the language-model
\* service is disabled, unconfigured or has failed, the response carries the
\* summarizeExtractive result with source 'extractive'.
C8_FallbackWheneverUnavailable ==
  (Answered /\ ~InvalidDocument(req.text)
     /\ (disabled(version) \/ ~OPENAI_KEY \/ OpenAiFailed))
    => ServedByFallback

\* the configurations in which the handler takes the fallback path
FallbackConfigured == disabled(version) \/ (version = 1 /\ ~OPENAI_KEY)

\* C8 amended: with a valid document the fallback serves the request when
\* the service is disabled, or, in version 1, unconfigured; a failed call,
\* and in version 2 a missing key, is answered 500 without a summary.
C8_FallbackWhenDisabledOrUnconfigured ==
  (Answered /\ ~InvalidDocument(req.text)) =>
     /\ FallbackConfigured => ServedByFallback
     /\ (~FallbackConfigured /\ (~OPENAI_KEY \/ OpenAiFailed)) =>
          (req.status = 500 /\ req.source = "none" /\ req.summary = <<>>)

\* version 1 without a key and not disabled serves a scored summary
C8_Witness ==
  /\ Answered
  /\ version = 1
  /\ ~disabled(1)
  /\ ~OPENAI_KEY
  /\ ServedByFallback
  /\ Len(splitSentences(normalizeText(req.text.chars))) > 3

\* C9: in the protected handler the response is the same for every outcome
\* of saveSummaryToDB: once a summary was produced the answer is 200 with
\* that summary and its source, whatever the insert did.
C9_PersistenceNeverChangesResponse ==
  (Answered /\ version = 1 /\ req.db # "none") =>
     /\ req.status = 200
     /\ req.error = "none"
     /\ \/ useFallback(1) /\ req.source = "extractive" /\ req.summary = Extractive
        \/ /\ ~useFallback(1)
           /\ req.source = "openai"
           /\ req.summary = (IF req.openai = "ok" THEN LlmContent ELSE <<>>)

\* the insert threw after the fallback produced a summary
C9_Witness ==
  /\ Answered
  /\ version = 1
  /\ req.db = "throws"
  /\ req.source = "extractive"
  /\ req.summary # <<>>
  /\ req.status = 200

\* the limiter has judged the request
Judged ==
  /\ req.endpoint = "summarize"
  /\ req.user # "none"
  /\ req.stage \in {"handler", "done"}

\* C10: of one key's summarize requests in one window [start, start+W) at
\* most SummarizeLimit reach the handler; every further one in that window
\* is answered 429 and summarizeExtractive is not invoked for it.
C10_AtMostLimitPerWindow ==
  /\ \A k \in DOMAIN admitted : admitted[k].count <= SummarizeLimit
  /\ Judged => (req.window <= req.time /\ req.time < req.window + WindowSec)
  /\ (Judged /\ req.before >= SummarizeLimit) =>
        /\ req.stage = "done"
        /\ req.status = 429
        /\ ~req.handled
        /\ ~req.invoked

\* in a window after the first, a request beyond the limit is turned away
C10_Witness ==
  /\ Judged
  /\ req.window > 0
  /\ req.before = SummarizeLimit
  /\ req.status = 429

\* C15: the quotas of the two endpoints are independent: with the in-memory
\* limiter, a caller who has sent at most SummarizeLimit requests to
\* /api/summarize in the current window, this one included, is not answered
\* 429 by /api/summarize, whatever they sent to /api/ocr.
C15_SummarizeQuotaIndependentOfOcr ==
  (Judged /\ req.sent <= SummarizeLimit) => req.status # 429

\* the limiter has judged the request, of either endpoint
Limited ==
  /\ req.user # "none"
  /\ req.stage \in {"handler", "done"}

\* C16: a rejection is temporary, with the in-memory limiter and with Redis:
\* a request that reaches the limiter WindowSec seconds or more after the
\* caller's window began is admitted, also when an earlier call of
\* redis.incr or redis.expire threw and the catch block swallowed it.
C16_AdmittedOnceWindowPassed ==
  (Limited /\ req.time - req.began >= WindowSec) => req.status # 429

====
